---- MODULE Spec2Model ----
(***************************************************************************)
(* A model of bandcamp-downloader.py: the collection enumeration           *)
(* (get_download_links_for_user, get_user_collection), the per-album       *)
(* pipeline (download_album, download_file) and the orchestration in main  *)
(* (sequential loop or ThreadPoolExecutor), over a file system of paths    *)
(* <<artist, filename>> whose contents are sequences of chunks.            *)
(***************************************************************************)
EXTENDS Integers, Sequences, FiniteSets, TLC

\* ------------------------------------------------------------------ bounds
MaxCount == 3          \* largest collection_count the profile page declares
MaxLinks == 3          \* most redownload_urls the server hands out in one run
MaxLen == 1            \* largest declared content-length, in chunks
MaxParallel == 2       \* the --parallel-downloads of the runs that use the pool
MaxVerbose == 1        \* most -v flags given

\* ------------------------------------------------------------ environment
Urls == {"u1", "u2"}
ManyUrls == {"u1", "u2", "u3"}    \* a larger collection, for the enumeration alone
Tokens == {"t1", "t2"}
Artists == {"a1", "a2"}
Files == {<<"f", "1">>, <<"f", "2">>}     \* filenames, as sequences of characters
Paths == Artists \X Files
Hole == "hole"         \* bytes of a sparse region left by a write past EOF

SeqsUpTo(S, k) == UNION {[1..j -> S] : j \in 0..k}

\* Up to renaming of the URLs, the first one the server mentions is u1.
FirstIsU1(s) == IF Len(s) = 0 THEN TRUE ELSE s[1] = "u1"

NoDup(s) == \A i, j \in 1..Len(s) : i # j => s[i] # s[j]

\* urllib.parse.unquote on a value given as a sequence of characters and
\* percent escapes: every escape is replaced by the character it encodes.
Decode(t) == CASE t = "%31" -> "1" [] t = "%32" -> "2" [] OTHER -> t
Unquote(v) == [k \in DOMAIN v |-> Decode(v[k])]

\* _url.split('/')[-1] of the file URL of album u.
Segment(u) == IF u = "u1" THEN <<"f", "1">> ELSE <<"f", "2">>

\* What the server answers for one album URL: its download page ("nodiv": no
\* pagedata div, "noformat": the format map lacks CONFIG['FORMAT'], "ok"),
\* the status of the file GET, the artist, the content-disposition header
\* (cd "absent": no such header, "plain": one without a filename* parameter,
\* "utf8": one with the parameter, whose percent-encoded value is enc), the
\* declared content-length and the number of chunks the body really delivers
\* (a transfer can end short of the declared length, never beyond it).
\* "unknown" stands for a URL the program has not requested yet: the answer is
\* drawn at the first request and stays the same afterwards.
UnusedFile ==
    [status |-> "ok", artist |-> "a1", cd |-> "utf8", enc |-> <<"f", "%31">>,
     clen |-> 0, blen |-> 0]

AlbumPage(page, f) ==
    [page |-> page, status |-> f.status, artist |-> f.artist, cd |-> f.cd,
     enc |-> f.enc, clen |-> f.clen, blen |-> f.blen]

Unknown == AlbumPage("unknown", UnusedFile)

\* Up to renaming of artists and files: u1 is served as a1/f1 through an
\* encoded filename* value, and u2 as the same path, as another file of the
\* same artist (named by its URL), or under another artist.
HeadersFor(u) ==
    IF u = "u1" THEN {<<"a1", "utf8", <<"f", "%31">> >>}
    ELSE {<<"a1", "utf8", <<"f", "%31">> >>, <<"a1", "plain", <<>> >>,
          <<"a2", "utf8", <<"f", "1">> >>}

OkFiles(u) ==
    {[status |-> "ok", artist |-> h[1], cd |-> h[2], enc |-> h[3],
      clen |-> c, blen |-> b] :
        h \in HeadersFor(u), c \in 0..MaxLen, b \in 0..MaxLen}

AlbumAnswers(u) ==
    {AlbumPage("nodiv", UnusedFile), AlbumPage("noformat", UnusedFile),
     AlbumPage("ok", [UnusedFile EXCEPT !.status = "err"]),
     AlbumPage("ok", [UnusedFile EXCEPT !.cd = "absent", !.enc = <<>>])}
    \cup {AlbumPage("ok", f) : f \in {g \in OkFiles(u) : g.blen <= g.clen}}

VARIABLES
    pc,         \* position of main: "start", "post", "check", "dl", "done", "crashed", "exit2"
    run,        \* 1 for the first invocation of the program, 2 for the second
    force,      \* CONFIG['FORCE']
    parallel,   \* args.parallel_downloads
    verbose,    \* CONFIG['VERBOSE'], the number of -v flags
    server,     \* the album answers of the server, unchanged during the runs
    user_info,  \* the dict built by get_download_links_for_user
    posts,      \* the payloads of the continuation POSTs issued so far
    links,      \* the list returned to main
    noneRet,    \* get_download_links_for_user returned None
    profile,    \* the answer to the profile GET: its status and embedded URLs
    data,       \* the answer to the continuation POST: status, URLs, last_token
    next,       \* index of the next link to hand to download_album
    st,         \* per link: "queued", "file", "open", "write", "done"
    off,        \* per link: the write position of its open file handle
    res,        \* per link: what became of it
    warns,      \* per link: number of ERROR/WARN lines written to the sink
    n,          \* CONFIG['TQDM'].n, the progress count
    fs,         \* content of each path (<<>> when absent or empty)
    exists,     \* the set of paths at which a file exists
    dirs,       \* the artist directories that exist
    fs0         \* fs at the start of the current run

envVars == <<run, force, parallel, verbose, server>>
enumVars == <<user_info, posts, links, noneRet, profile, data>>
poolVars == <<next, st, off, res, warns, n>>
diskVars == <<fs, exists, dirs>>
vars == <<pc, envVars, enumVars, poolVars, diskVars, fs0>>

NoUserInfo == [collection_count |-> 0, last_token |-> "t1", download_urls |-> <<>>]
NoProfile == [status |-> "none", urls |-> <<>>]
NoData == [status |-> "none", urls |-> <<>>, last_token |-> "t1"]
NoRes == [kind |-> "none", existed |-> FALSE, compared |-> FALSE]

\* The state at the start of main, whatever the verbosity and the albums the
\* server has (the domain of server).
Start ==
    /\ pc = "start"
    /\ run = 1
    /\ force \in BOOLEAN
    /\ parallel \in {1, MaxParallel}
    /\ user_info = NoUserInfo
    /\ posts = <<>>
    /\ links = <<>>
    /\ noneRet = FALSE
    /\ profile = NoProfile
    /\ data = NoData
    /\ next = 1
    /\ st = <<>>
    /\ off = <<>>
    /\ res = <<>>
    /\ warns = <<>>
    /\ n = 0
    /\ fs = [p \in Paths |-> <<>>]
    /\ exists = {}
    /\ dirs = {}
    /\ fs0 = [p \in Paths |-> <<>>]

\* A run without -v (the default of --verbose is 0).
Init ==
    /\ verbose = 0
    /\ server = [u \in Urls |-> Unknown]
    /\ Start

\* A run with any number of -v flags.
InitVerbose ==
    /\ verbose \in 0..MaxVerbose
    /\ server = [u \in Urls |-> Unknown]
    /\ Start

\* A run against a server with a larger collection.
InitManyUrls ==
    /\ verbose = 0
    /\ server = [u \in ManyUrls |-> Unknown]
    /\ Start

\* ------------------------------------------------------- the Enumerator
\* generate_collection_post_payload: the body of the continuation POST.
generate_collection_post_payload(ui) ==
    [count |-> ui.collection_count - Len(ui.download_urls),
     older_than_token |-> ui.last_token]

\* The page's URLs put in front of the list.
PrependUrls(urls, page) == page \o urls

\* _user_info['download_urls'] += data['redownload_urls'].values()
ExtendUrls(urls, page) == urls \o page

\* get_download_links_for_user up to the call of get_user_collection: GET the
\* profile page, find the pagedata div, seed user_info from its JSON. Without
\* the div the function prints an error and returns None. The status of the
\* response is not looked at: only its text is parsed.
GetProfile ==
    /\ pc = "start"
    /\ \E status \in {"ok", "err"} :
          \/ /\ noneRet' = TRUE
             /\ profile' = [status |-> status, urls |-> <<>>]
             /\ pc' = "check"
             /\ UNCHANGED user_info
          \/ \E count \in 0..MaxCount, tok \in Tokens, urls \in SeqsUpTo(DOMAIN server, MaxLinks) :
                /\ FirstIsU1(urls)
                /\ profile' = [status |-> status, urls |-> urls]
                /\ user_info' = [collection_count |-> count, last_token |-> tok,
                                 download_urls |-> urls]
                /\ pc' = "post"
                /\ UNCHANGED noneRet
    /\ UNCHANGED <<envVars, posts, links, data, poolVars, diskVars, fs0>>

\* get_user_collection called again for as long as the list is short of
\* collection_count.
GetUserCollectionWhileShort ==
    /\ pc = "post"
    /\ posts' = Append(posts, generate_collection_post_payload(user_info))
    /\ \E page \in SeqsUpTo(DOMAIN server, MaxLinks - Len(user_info.download_urls)) :
          /\ user_info' = [user_info EXCEPT !.download_urls = ExtendUrls(@, page)]
          /\ links' = user_info'.download_urls
          /\ pc' = IF Len(links') < user_info.collection_count THEN "post" ELSE "check"
    /\ UNCHANGED <<envVars, noneRet, profile, data, poolVars, diskVars, fs0>>

\* get_user_collection and the return of get_download_links_for_user: one
\* POST, raise_for_status, then the page's URLs are appended and the list is
\* returned. The call is made once, whatever the sizes are.
GetUserCollection ==
    /\ pc = "post"
    /\ posts' = Append(posts, generate_collection_post_payload(user_info))
    /\ \/ /\ pc' = "crashed"                     \* raise_for_status raises
          /\ data' = [NoData EXCEPT !.status = "err"]
          /\ UNCHANGED <<user_info, links>>
       \/ \E urls \in SeqsUpTo(DOMAIN server, MaxLinks - Len(user_info.download_urls)),
             tok \in Tokens :
             /\ FirstIsU1(user_info.download_urls \o urls)
             /\ data' = [status |-> "ok", urls |-> urls, last_token |-> tok]
             /\ user_info' = [user_info EXCEPT
                                 !.download_urls = ExtendUrls(@, urls)]
             /\ links' = user_info'.download_urls
             /\ pc' = "check"
    /\ UNCHANGED <<envVars, noneRet, profile, poolVars, diskVars, fs0>>

\* ------------------------------------------------------ the Orchestrator
\* if CONFIG['VERBOSE']: print(... len(links) ...): len(None) raises TypeError.
LenOfNoneRaises == noneRet /\ verbose > 0

\* main after get_download_links_for_user returned: under -v the number of
\* links is printed first; exit 2 on an empty (or None) result, else create the
\* progress bar over the links.
MainCheckLinks ==
    /\ pc = "check"
    /\ IF LenOfNoneRaises
         THEN /\ pc' = "crashed"
              /\ UNCHANGED poolVars
         ELSE IF noneRet \/ links = <<>>
         THEN /\ pc' = "exit2"
              /\ UNCHANGED poolVars
         ELSE /\ pc' = "dl"
              /\ next' = 1
              /\ st' = [i \in 1..Len(links) |-> "queued"]
              /\ off' = [i \in 1..Len(links) |-> 0]
              /\ res' = [i \in 1..Len(links) |-> NoRes]
              /\ warns' = [i \in 1..Len(links) |-> 0]
              /\ n' = 0
    /\ user_info' = NoUserInfo
    /\ posts' = <<>>
    /\ profile' = NoProfile
    /\ data' = NoData
    /\ UNCHANGED <<envVars, links, noneRet, diskVars, fs0>>

\* A pool that starts one thread per submitted link.
WorkersPerLink == Len(links)

\* ThreadPoolExecutor(max_workers = args.parallel_downloads) when
\* parallel_downloads > 1, else the for loop of the main thread.
Workers == IF parallel > 1 THEN parallel ELSE 1

\* The links whose download_album call has started and not yet returned.
InFlight == {i \in DOMAIN st : st[i] \in {"file", "open", "write"}}

\* CONFIG['TQDM'].update()
TqdmUpdate(k) == k + 1

\* An exception leaving download_album for link i: in the pool it is stored in
\* a future nobody reads and the worker thread goes on; in the for loop it
\* leaves main.
Raise(i) ==
    /\ st' = [st EXCEPT ![i] = "done"]
    /\ res' = [res EXCEPT ![i].kind = "error"]
    /\ pc' = IF parallel > 1 THEN pc ELSE "crashed"

\* The server's answer for URL u: drawn when u is first requested.
Answer(u) == IF server[u] = Unknown THEN AlbumAnswers(u) ELSE {server[u]}

\* The album page parsed without the test for the div.
DivNeverMissing(a) == FALSE

\* if not div (soup.find('div') of the album page found nothing)
DivMissing(a) == a.page = "nodiv"

\* The format lookup without the membership test.
FormatNeverMissing(a) == FALSE

\* not CONFIG['FORMAT'] in data['download_items'][0]['downloads']
FormatMissing(a) == a.page = "noformat"

\* download_album up to its call of download_file: the next link is taken when
\* a worker is free; GET the album page, find the div, look up the format.
DownloadAlbum(i) ==
    /\ pc = "dl"
    /\ i = next
    /\ i <= Len(links)
    /\ Cardinality(InFlight) < Workers
    /\ next' = next + 1
    /\ \E a \in Answer(links[i]) :
         /\ server' = [server EXCEPT ![links[i]] = a]
         /\ IF DivMissing(a) \/ FormatMissing(a)
              THEN /\ warns' = [warns EXCEPT ![i] = @ + 1]
                   /\ n' = TqdmUpdate(n)
                   /\ res' = [res EXCEPT ![i].kind =
                                 IF DivMissing(a) THEN "nodiv" ELSE "noformat"]
                   /\ st' = [st EXCEPT ![i] = "done"]
              ELSE /\ st' = [st EXCEPT ![i] = "file"]
                   /\ UNCHANGED <<warns, n, res>>
    /\ UNCHANGED <<pc, run, force, parallel, verbose, enumVars, off, diskVars, fs0>>

\* ------------------------------------------------------ the File Fetcher
\* download_file without the call of raise_for_status.
StatusNeverFails(u) == FALSE

\* response.raise_for_status() raises.
StatusFails(u) == server[u].status # "ok"

\* response.headers['content-disposition'] raises KeyError.
HeaderMissing(u) == server[u].cd = "absent"

\* FILENAME_REGEX.search(...) finds the filename* parameter.
FilenameMatch(u) == server[u].cd = "utf8"

\* unquote(filename_match.group(1)) if filename_match else _url.split('/')[-1]
Filename(u) == IF FilenameMatch(u) THEN Unquote(server[u].enc) ELSE Segment(u)

\* The response to the file GET passes raise_for_status and the header lookup,
\* so download_file gets as far as a destination path.
ResponseAccepted(u) == ~StatusFails(u) /\ ~HeaderMissing(u)

\* os.path.join(CONFIG['OUTPUT_DIR'], _to, filename)
PathOf(u) == <<server[u].artist, Filename(u)>>

\* The comparison inverted.
SizeDiffers(u) == server[u].clen # Len(fs[PathOf(u)])

\* expected_size == actual_size
SizeMatches(u) == server[u].clen = Len(fs[PathOf(u)])

\* The size comparison made whether or not --force was given.
SkipsExistingDespiteForce(u) == SizeMatches(u)

\* if CONFIG['FORCE']: ... else: compare sizes
SkipsExisting(u) == ~force /\ SizeMatches(u)

\* download_file up to the decision to write: the streaming GET,
\* raise_for_status, the content-disposition header (a KeyError when the
\* response has none), the destination path, os.path.exists and, without
\* --force, the comparison of content-length and os.stat().st_size.
DownloadFileRequest(i) ==
    /\ pc \in {"dl"}
    /\ i \in DOMAIN st
    /\ st[i] = "file"
    /\ LET u == links[i] IN
         IF ~ResponseAccepted(u)
           THEN /\ Raise(i)
                /\ UNCHANGED n
           ELSE /\ UNCHANGED pc
                /\ IF PathOf(u) \in exists
                     THEN IF SkipsExisting(u)
                            THEN /\ res' = [res EXCEPT ![i] =
                                       [kind |-> "skipped", existed |-> TRUE,
                                        compared |-> TRUE]]
                                 /\ n' = TqdmUpdate(n)
                                 /\ st' = [st EXCEPT ![i] = "done"]
                            ELSE /\ res' = [res EXCEPT ![i].existed = TRUE,
                                                       ![i].compared = ~force]
                                 /\ st' = [st EXCEPT ![i] = "open"]
                                 /\ UNCHANGED n
                     ELSE /\ st' = [st EXCEPT ![i] = "open"]
                          /\ UNCHANGED <<res, n>>
    /\ UNCHANGED <<envVars, enumVars, next, off, warns, diskVars, fs0>>

\* open(file_path, 'ab'): the existing bytes are kept.
OpenAppend(content) == content

\* open(file_path, 'wb'): the file is created or truncated.
OpenWb(content) == <<>>

\* fh.write(chunk) at the handle's position o: bytes are replaced or appended,
\* a position past the end of the file leaves a hole before the chunk.
WriteAt(content, o, chunk) ==
    [k \in 1..(IF Len(content) > o + 1 THEN Len(content) ELSE o + 1) |->
        IF k = o + 1 THEN chunk
        ELSE IF k <= Len(content) THEN content[k] ELSE Hole]

\* The chunks response.iter_content delivers for URL u.
Body(u) == [k \in 1..server[u].blen |-> u]

\* The file of link i is closed and CONFIG['TQDM'].update() called.
Finish(i) ==
    /\ st' = [st EXCEPT ![i] = "done"]
    /\ n' = TqdmUpdate(n)
    /\ res' = [res EXCEPT ![i].kind =
                  IF res[i].existed THEN "overwritten" ELSE "downloaded"]

\* os.makedirs(..., exist_ok=True) and open(file_path, 'wb'); a body without
\* chunks ends the loop at once.
DownloadFileOpen(i) ==
    /\ pc = "dl"
    /\ i \in DOMAIN st
    /\ st[i] = "open"
    /\ LET p == PathOf(links[i]) IN
         /\ dirs' = dirs \cup {p[1]}
         /\ exists' = exists \cup {p}
         /\ fs' = [fs EXCEPT ![p] = OpenWb(@)]
    /\ off' = [off EXCEPT ![i] = 0]
    /\ IF server[links[i]].blen = 0
         THEN Finish(i)
         ELSE /\ st' = [st EXCEPT ![i] = "write"]
              /\ UNCHANGED <<n, res>>
    /\ UNCHANGED <<pc, envVars, enumVars, next, warns, fs0>>

\* One chunk of response.iter_content written; after the last one the file is
\* closed and the progress bar updated.
DownloadFileWrite(i) ==
    /\ pc = "dl"
    /\ i \in DOMAIN st
    /\ st[i] = "write"
    /\ LET u == links[i]
           p == PathOf(u)
       IN /\ fs' = [fs EXCEPT ![p] = WriteAt(@, off[i], Body(u)[off[i] + 1])]
          /\ off' = [off EXCEPT ![i] = @ + 1]
          /\ IF off[i] + 1 >= server[u].blen
               THEN Finish(i)
               ELSE UNCHANGED <<st, n, res>>
    /\ UNCHANGED <<pc, envVars, enumVars, next, warns, exists, dirs, fs0>>

\* A pool left without waiting for its workers.
PoolNotJoined == TRUE

\* The exit of the with block (ThreadPoolExecutor.shutdown(wait=True)) or the
\* end of the for loop: every link was taken and every call has returned.
PoolJoined == next > Len(links) /\ InFlight = {}

\* The end of main: the pool is shut down (waiting for its workers) or the for
\* loop is over; the progress bar is closed and 'Done.' printed.
MainClose ==
    /\ pc = "dl"
    /\ PoolJoined
    /\ pc' = "done"
    /\ UNCHANGED <<envVars, enumVars, poolVars, diskVars, fs0>>

\* The program is started again with the same arguments against the same
\* server, which answers the enumeration as before: the same list reaches
\* main.
Rerun ==
    /\ pc \in {"done", "crashed"}
    /\ links # <<>>
    /\ run = 1
    /\ run' = 2
    /\ pc' = "check"
    /\ next' = 1
    /\ st' = <<>>
    /\ off' = <<>>
    /\ res' = <<>>
    /\ warns' = <<>>
    /\ n' = 0
    /\ fs0' = fs
    /\ UNCHANGED <<force, parallel, verbose, server, enumVars, diskVars>>

Next ==
    \/ GetProfile
    \/ GetUserCollection
    \/ MainCheckLinks
    \/ \E i \in 1..MaxLinks : DownloadAlbum(i)
    \/ \E i \in 1..MaxLinks : DownloadFileRequest(i)
    \/ \E i \in 1..MaxLinks : DownloadFileOpen(i)
    \/ \E i \in 1..MaxLinks : DownloadFileWrite(i)
    \/ MainClose
    \/ Rerun

Spec == Init /\ [][Next]_vars

SpecVerbose == InitVerbose /\ [][Next]_vars

\* get_download_links_for_user and the hand-over of its result to main, alone.
Enumerate ==
    \/ GetProfile
    \/ GetUserCollection
    \/ MainCheckLinks

SpecEnumerator == InitManyUrls /\ [][Enumerate]_vars

\* ================================================================ claims
\* The list get_download_links_for_user returned in this run, when it
\* returned one, is still held beside user_info until main has looked at it.
EnumerationReturned == pc = "check" /\ run = 1 /\ ~noneRet

\* C1: the URL list the Enumerator returns has no duplicate, and when the
\* enumeration completes its length is the declared collection_count.
C1_NoDuplicatesAndComplete ==
    EnumerationReturned =>
        /\ NoDup(links)
        /\ Len(links) = user_info.collection_count

\* C2: a continuation POST is issued only while fewer URLs than the declared
\* total are collected, and the Enumerator does not stop short of the total.
C2_PostsExactlyWhileShort ==
    /\ \A k \in 1..Len(posts) : posts[k].count > 0
    /\ EnumerationReturned => Len(links) >= user_info.collection_count

\* C3: a failing album never keeps the remaining albums from being processed:
\* when the run ends, with either kind of orchestration, every link of the
\* work list has gone through download_album.
C3_FailuresContained ==
    pc \in {"done", "crashed"} => \A i \in DOMAIN st : st[i] = "done"

\* A sequential run stopped by the failed file GET of one album while a later
\* album was never started.
C3_Witness ==
    /\ pc = "crashed"
    /\ parallel = 1
    /\ \E i, j \in DOMAIN st : res[i].kind = "error" /\ st[j] = "queued"

\* The outcomes a link can have without any file having been written for it.
Unwritten == {"none", "nodiv", "noformat", "error", "skipped"}

\* No file was written in this run so far, and none is being written.
NothingWritten ==
    /\ fs = fs0
    /\ \A i \in DOMAIN st : st[i] \notin {"open", "write"} /\ res[i].kind \in Unwritten

ServesConsistently ==
    /\ \A u \in Urls : server[u].blen = server[u].clen
    /\ \A u, v \in Urls :
          (server[u].page = "ok" /\ server[v].page = "ok" /\ PathOf(u) = PathOf(v))
              => server[u].clen = server[v].clen

C5_Step(i) ==
    LET u == links[i]
        p == PathOf(u)
    IN /\ (st[i] = "file" /\ st'[i] # "file" /\ ~force
             /\ ResponseAccepted(u) /\ p \in exists) =>
            IF server[u].clen = Len(fs[p])
              THEN /\ st'[i] = "done"
                   /\ res'[i].kind = "skipped"
                   /\ UNCHANGED diskVars
              ELSE /\ st'[i] = "open"
                   /\ res'[i].existed
       /\ (st[i] = "open" /\ st'[i] # "open") =>
            fs'[p] = <<>> /\ off'[i] = 0
       /\ (st[i] \in {"open", "write"} /\ st'[i] = "done" /\ parallel = 1) =>
            fs'[p] = Body(u)

\* C5, over every step of every link: skip with the disk unchanged on equal
\* sizes, truncate and rewrite from position 0 on unequal sizes.
C5_SkipOrOverwrite ==
    [][\A i \in 1..MaxLinks : (i \in DOMAIN st /\ i \in DOMAIN st') => C5_Step(i)]_vars

C5_Witness ==
    /\ ~force
    /\ \E i, j \in DOMAIN st :
          /\ res[i].kind = "skipped"
          /\ server[links[i]].clen > 0
          /\ res[j].kind = "overwritten"
          /\ fs0[PathOf(links[j])] # <<>>

\* C6: with --force no fetch is skipped and no size comparison made: every
\* album whose page and file GET succeed, the response naming a destination,
\* ends with its file written.
C6_ForceRewrites ==
    force =>
        \A i \in DOMAIN st :
            /\ res[i].kind # "skipped"
            /\ ~res[i].compared
            /\ (st[i] = "done" /\ server[links[i]].page = "ok"
                  /\ ResponseAccepted(links[i]))
                 => res[i].kind \in {"downloaded", "overwritten"}

C6_Witness ==
    /\ force
    /\ \E i \in DOMAIN st :
          /\ res[i].kind = "overwritten"
          /\ server[links[i]].clen > 0
          /\ Len(fs0[PathOf(links[i])]) = server[links[i]].clen

\* C7: never more than parallel_downloads albums are in flight; with
\* parallel_downloads = 1 never more than one, so no two writes overlap.
C7_ConcurrencyBound ==
    /\ Cardinality(InFlight) <= parallel
    /\ parallel = 1 => Cardinality({i \in DOMAIN st : st[i] = "write"}) <= 1

C7_Witness ==
    /\ parallel = 2
    /\ Cardinality(InFlight) = 2
    /\ next <= Len(links)

\* C8: when the run ends, the progress count equals the number of links.
C8_EveryLinkCounted == pc = "done" => n = Len(links)

C8_Witness ==
    /\ pc = "done"
    /\ n < Len(links)
    /\ \E i \in DOMAIN st : res[i].kind = "error"

\* C9: an album without the configured format ends as a Skip with exactly one
\* warning and without a file fetch; the step that skips it leaves the disk
\* and the state of every other album as they are.
C9_Skipped(i) ==
    (st[i] = "done" /\ server[links[i]].page = "noformat") =>
        res[i].kind = "noformat" /\ warns[i] = 1

C9_Step(i) ==
    (st[i] = "queued" /\ st'[i] # "queued" /\ server'[links[i]].page = "noformat") =>
        /\ st'[i] = "done"
        /\ n' = n + 1
        /\ UNCHANGED diskVars
        /\ \A j \in DOMAIN st \ {i} :
              st'[j] = st[j] /\ res'[j] = res[j] /\ warns'[j] = warns[j] /\ off'[j] = off[j]

\* C9, in every state and over every step of every link: one warning, no
\* fetch, nothing else touched.
C9_FormatFilter ==
    /\ [](\A i \in DOMAIN st : C9_Skipped(i))
    /\ [][\A i \in 1..MaxLinks : (i \in DOMAIN st /\ i \in DOMAIN st') => C9_Step(i)]_vars

C9_Witness ==
    \E i, j \in DOMAIN st :
        /\ res[i].kind = "noformat"
        /\ warns[i] = 1
        /\ res[j].kind = "downloaded"

\* C10: no two albums are ever writing the same destination path at once.
C10_WritesDisjoint ==
    \A i, j \in DOMAIN st :
        (i # j /\ st[i] = "write" /\ st[j] = "write")
            => PathOf(links[i]) # PathOf(links[j])

C10_Witness ==
    \E i, j \in DOMAIN st :
        /\ i # j
        /\ st[i] = "write"
        /\ st[j] = "write"
        /\ PathOf(links[i]) = PathOf(links[j])

\* C11: the Enumerator always terminates: it issues at most one continuation
\* request, none is pending once one was answered, and until it has returned
\* it can always take its next step; an empty page before the declared total
\* is reached is not followed by another request.
C11_EnumeratorTerminates ==
    /\ Len(posts) <= 1
    /\ pc = "post" => posts = <<>>
    /\ pc \in {"start", "post"} => ENABLED Next

\* The continuation page came back empty while the list was short of the
\* declared total, and the Enumerator has returned.
C11_Witness ==
    /\ EnumerationReturned
    /\ Len(posts) = 1
    /\ posts[1].count > 0
    /\ links = <<>>

\* C12: when the profile page has no pagedata div, the run ends with exit
\* status 2, at every verbosity, and no album download is started.
C12_NoDivExitsWith2 ==
    noneRet => (pc \in {"check", "exit2"} /\ st = <<>>)

\* The run without the div under -v: it ended in the TypeError, not in exit 2.
C12_Witness == noneRet /\ verbose > 0 /\ pc = "crashed"

\* C13: a non-success status of the profile GET or of the continuation POST
\* ends the enumeration: no list is returned and no further request made.
C13_BadStatusIsFatal ==
    /\ profile.status = "err" => (pc # "post" /\ links = <<>>)
    /\ data.status = "err" => (pc = "crashed" /\ links = <<>> /\ st = <<>>)

\* The profile GET answered a non-success status and a list was returned.
C13_Witness ==
    /\ profile.status = "err"
    /\ pc = "check"
    /\ links # <<>>

\* C14: a fetch whose file GET succeeds ends with its file at the artist's
\* directory under the percent-decoded filename* value when the response has
\* one, and under the URL's last segment when it has none or no
\* content-disposition header at all; it does not fail.
C14_Expected(u) ==
    IF server[u].cd = "utf8" THEN Unquote(server[u].enc) ELSE Segment(u)

C14_FilenameResolution ==
    \A i \in DOMAIN st :
        (st[i] = "done" /\ server[links[i]].page = "ok" /\ ~StatusFails(links[i])) =>
            /\ res[i].kind \in {"skipped", "downloaded", "overwritten"}
            /\ <<server[links[i]].artist, C14_Expected(links[i])>> \in exists

\* The file GET succeeded without a content-disposition header and the fetch
\* ended in an error.
C14_Witness ==
    \E i \in DOMAIN st :
        /\ st[i] = "done"
        /\ server[links[i]].page = "ok"
        /\ ~StatusFails(links[i])
        /\ HeaderMissing(links[i])
        /\ res[i].kind = "error"

\* The fetches with a content-disposition header do resolve as C14 says: the
\* decoded filename* value, else the URL's last segment.
C14_ResolvesWhenHeaderPresent ==
    \A i \in DOMAIN st :
        (st[i] = "done" /\ server[links[i]].page = "ok"
           /\ ResponseAccepted(links[i])) =>
            /\ res[i].kind \in {"skipped", "downloaded", "overwritten"}
            /\ <<server[links[i]].artist, C14_Expected(links[i])>> \in exists

\* C15: the list the enumeration returns is the URLs embedded in the profile
\* page, in their order, followed by the URLs of the continuation page, in
\* the order received.
C15_EncounterOrder ==
    EnumerationReturned => links = profile.urls \o data.urls

\* Collection count 3, one URL embedded, two more on the continuation page:
\* three different entries are returned.
C15_Witness ==
    /\ EnumerationReturned
    /\ posts # <<>>
    /\ posts[1].count = 2
    /\ Len(profile.urls) = 1
    /\ Len(data.urls) = 2
    /\ Len(links) = 3
    /\ NoDup(links)

\* C16: the continuation request carries count = collection_count minus the
\* URLs collected so far and the stored token, and after a successful page
\* fetch the stored token is the one the response returned.
C16_TokenAdvances ==
    (EnumerationReturned /\ data.status = "ok") =>
        /\ posts[1].count = user_info.collection_count - Len(profile.urls)
        /\ user_info.last_token = data.last_token

\* The request was as stated, the response returned another token than the
\* one sent, and the stored token is still the one sent.
C16_Witness ==
    /\ EnumerationReturned
    /\ data.status = "ok"
    /\ posts[1].count = user_info.collection_count - Len(profile.urls)
    /\ posts[1].older_than_token = user_info.last_token
    /\ data.last_token # user_info.last_token

\* C17: an album whose download page has no pagedata div ends with exactly one
\* message and counted as processed, without a file fetch; the step that
\* handles it writes nothing to the disk, leaves every other album as it is
\* and leaves main running.
C17_Skipped(i) ==
    (st[i] = "done" /\ server[links[i]].page = "nodiv") =>
        res[i].kind = "nodiv" /\ warns[i] = 1

C17_Step(i) ==
    (st[i] = "queued" /\ st'[i] # "queued" /\ server'[links[i]].page = "nodiv") =>
        /\ st'[i] = "done"
        /\ warns'[i] = warns[i] + 1
        /\ n' = n + 1
        /\ pc' = pc
        /\ UNCHANGED diskVars
        /\ \A j \in DOMAIN st \ {i} :
              st'[j] = st[j] /\ res'[j] = res[j] /\ warns'[j] = warns[j] /\ off'[j] = off[j]

\* C17, in every state and over every step of every link.
C17_NoDivSkips ==
    /\ [](\A i \in DOMAIN st : C17_Skipped(i))
    /\ [][\A i \in 1..MaxLinks : (i \in DOMAIN st /\ i \in DOMAIN st') => C17_Step(i)]_vars

\* An album without the div was skipped and a later album was downloaded.
C17_Witness ==
    \E i, j \in DOMAIN st :
        /\ i < j
        /\ res[i].kind = "nodiv"
        /\ warns[i] = 1
        /\ res[j].kind = "downloaded"
        /\ fs[PathOf(links[j])] # <<>>

\* C18: a file fetch answered with a non-success status never opens or writes
\* a file, and the step that receives the answer ends the fetch in an error
\* with files, their contents and directories as they were.
C18_NeverOpens(i) ==
    server[links[i]].status # "ok" => st[i] \notin {"open", "write"}

C18_Step(i) ==
    (st[i] = "file" /\ st'[i] # "file" /\ server[links[i]].status # "ok") =>
        /\ st'[i] = "done"
        /\ res'[i].kind = "error"
        /\ UNCHANGED diskVars

C18_FailedFetchLeavesDisk ==
    /\ [](\A i \in DOMAIN st : C18_NeverOpens(i))
    /\ [][\A i \in 1..MaxLinks : (i \in DOMAIN st /\ i \in DOMAIN st') => C18_Step(i)]_vars

\* A fetch failed on its status while files with content were on the disk.
C18_Witness ==
    /\ \E i \in DOMAIN st :
          /\ st[i] = "done"
          /\ server[links[i]].status # "ok"
          /\ res[i].kind = "error"
    /\ \E p \in exists : fs[p] # <<>>

\* C19: when the progress bar is closed and 'Done.' printed, every link was
\* taken and every album has finished; from then on, within the run, no
\* album's state, no progress count and nothing on the disk changes.
C19_ClosedAfterJoin ==
    /\ [](pc = "done" =>
            (next > Len(links) /\ \A i \in DOMAIN st : st[i] = "done"))
    /\ [][(pc = "done" /\ run' = run) => UNCHANGED <<poolVars, diskVars>>]_vars

\* A pool run closed after more albums than workers, one of them downloaded.
C19_Witness ==
    /\ pc = "done"
    /\ parallel > 1
    /\ Len(links) > parallel
    /\ \E i \in DOMAIN st : res[i].kind = "downloaded" /\ server[links[i]].blen > 0

====
